---- MODULE Spec2Model ----
(***************************************************************************)
(* Model of app.py, the patient scheduler: the in-memory list              *)
(* `appointments`, the ledger file appointments.xlsx, and the handlers of  *)
(* /api/appointments (GET, POST, DELETE) and /download.                    *)
(*                                                                         *)
(* A Python str is a sequence of one-character strings, so that strip(),   *)
(* datetime.fromisoformat() and the str comparison of sorted() are         *)
(* computed on the characters.  Python's None is the value None below.     *)
(***************************************************************************)
EXTENDS Integers, Sequences, FiniteSets, TLC

VARIABLES appointments, ledger, tmp, resp, nextId, now, faults, requests, pc, loc

vars == <<appointments, ledger, tmp, resp, nextId, now, faults, requests, pc, loc>>

(* ---------------------------------------------------------------- bounds *)
\* uuid4() draws at most MaxIds ids: at most MaxIds inserts are accepted.
MaxIds == 5
\* At most MaxFaults file-system errors are injected into save_excel.
MaxFaults == 1
\* Where file-system errors are injected, at most MaxRequests requests are
\* handled after the initial state.
MaxRequests == 3
\* The threads handle at most MaxThreadRequests requests between them.
MaxThreadRequests == 2
\* Where the ledger is a file found at startup, it holds at most MaxStored
\* rows.
MaxStored == 3

(* ------------------------------------------------------------- constants *)
MAX_PER_HOUR == 4
HEADERS == <<"id", "name", "address", "reason", "datetime", "created_at">>

None == <<"None">>

(* ------------------------------------------------------- str primitives *)
Digits == <<"0", "1", "2", "3", "4", "5", "6", "7", "8", "9">>

IsDigit(c) == \E i \in 1..10 : Digits[i] = c

DigitVal(c) == (CHOOSE i \in 1..10 : Digits[i] = c) - 1

\* Code points of the characters the inputs are written with.
Ord(c) ==
    CASE c = " " -> 32
      [] c = "-" -> 45
      [] IsDigit(c) -> 48 + DigitVal(c)
      [] c = ":" -> 58
      [] c = "A" -> 65
      [] c = "B" -> 66
      [] c = "R" -> 82
      [] c = "T" -> 84
      [] c = "d" -> 100
      [] c = "f" -> 102
      [] c = "l" -> 108
      [] c = "o" -> 111
      [] c = "u" -> 117
      [] c = "x" -> 120

\* Python's a < b on str: lexicographic on the code points, from index i on.
RECURSIVE StrLessFrom(_, _, _)
StrLessFrom(a, b, i) ==
    IF i > Len(b) THEN FALSE
    ELSE IF i > Len(a) THEN TRUE
    ELSE IF a[i] # b[i] THEN Ord(a[i]) < Ord(b[i])
    ELSE StrLessFrom(a, b, i + 1)

StrLess(a, b) == StrLessFrom(a, b, 1)

RECURSIVE LStrip(_)
LStrip(s) == IF s # <<>> /\ Head(s) = " " THEN LStrip(Tail(s)) ELSE s

RECURSIVE RStrip(_)
RStrip(s) ==
    IF s # <<>> /\ s[Len(s)] = " " THEN RStrip(SubSeq(s, 1, Len(s) - 1)) ELSE s

\* str.strip()
Strip(s) == RStrip(LStrip(s))

(* ------------------------------------------------ datetime.fromisoformat *)
AllDigits(s, i, n) == \A k \in i..(i + n - 1) : IsDigit(s[k])

Num2(s, i) == 10 * DigitVal(s[i]) + DigitVal(s[i + 1])

Num4(s, i) == 100 * Num2(s, i) + Num2(s, i + 2)

IsLeap(y) == (y % 4 = 0) /\ ((y % 100 # 0) \/ (y % 400 = 0))

DaysInMonth(y, m) ==
    IF m = 2 THEN (IF IsLeap(y) THEN 29 ELSE 28)
    ELSE IF m \in {4, 6, 9, 11} THEN 30 ELSE 31

DateOk(s) ==
    /\ Len(s) >= 10
    /\ AllDigits(s, 1, 4) /\ s[5] = "-" /\ AllDigits(s, 6, 2)
    /\ s[8] = "-" /\ AllDigits(s, 9, 2)
    /\ Num4(s, 1) >= 1
    /\ Num2(s, 6) \in 1..12
    /\ Num2(s, 9) \in 1..DaysInMonth(Num4(s, 1), Num2(s, 6))

\* The time part after the one-character separator s[11]: HH, HH:MM or
\* HH:MM:SS (the forms every Python 3.7+ accepts; the inputs of the model
\* are no longer than 19 characters).
TimeOk(s) ==
    /\ Len(s) \in {13, 16, 19}
    /\ AllDigits(s, 12, 2) /\ Num2(s, 12) \in 0..23
    /\ Len(s) >= 16 => (s[14] = ":" /\ AllDigits(s, 15, 2) /\ Num2(s, 15) \in 0..59)
    /\ Len(s) >= 19 => (s[17] = ":" /\ AllDigits(s, 18, 2) /\ Num2(s, 18) \in 0..59)

\* datetime.fromisoformat(s) returns (TRUE) or raises (FALSE).
IsoParses(s) == s # None /\ DateOk(s) /\ (Len(s) = 10 \/ TimeOk(s))

\* The datetime object it returns.
IsoParse(s) ==
    [year   |-> Num4(s, 1),
     month  |-> Num2(s, 6),
     day    |-> Num2(s, 9),
     hour   |-> IF Len(s) >= 13 THEN Num2(s, 12) ELSE 0,
     minute |-> IF Len(s) >= 16 THEN Num2(s, 15) ELSE 0]

\* DATETIME_FORMAT = "%Y-%m-%dT%H:%M": the fixed format of the configuration,
\* as strptime reads it: a four-digit year, and one or two digits for each of
\* month, day, hour and minute, the text matched whole.
StrpField(s, i, w) == IF w = 1 THEN DigitVal(s[i]) ELSE Num2(s, i)

DATETIME_FORMAT(s) ==
    /\ s # None
    /\ \E wm, wd, wh, wn \in {1, 2} :
         LET pm == 6
             pd == pm + wm + 1
             ph == pd + wd + 1
             pn == ph + wh + 1
         IN /\ Len(s) = pn + wn - 1
            /\ AllDigits(s, 1, 4) /\ s[5] = "-"
            /\ AllDigits(s, pm, wm) /\ s[pm + wm] = "-"
            /\ AllDigits(s, pd, wd) /\ s[pd + wd] = "T"
            /\ AllDigits(s, ph, wh) /\ s[ph + wh] = ":"
            /\ AllDigits(s, pn, wn)
            /\ Num4(s, 1) >= 1
            /\ StrpField(s, pm, wm) \in 1..12
            /\ StrpField(s, pd, wd) \in 1..DaysInMonth(Num4(s, 1), StrpField(s, pm, wm))
            /\ StrpField(s, ph, wh) \in 0..23
            /\ StrpField(s, pn, wn) \in 0..59

(* ---------------------------------------------------------------- inputs *)
Date0101 == <<"2", "0", "2", "4", "-", "0", "1", "-", "0", "1">>

Dt0915 == Date0101 \o <<"T", "0", "9", ":", "1", "5">>
DtSp0945 == Date0101 \o <<" ", "0", "9", ":", "4", "5">>
Dt1005 == Date0101 \o <<"T", "1", "0", ":", "0", "5">>
Dt915 == Date0101 \o <<"T", "9", ":", "1", "5">>
DtMonth13 == <<"2", "0", "2", "4", "-", "1", "3", "-", "0", "1", "T", "0", "9", ":", "1", "5">>

Al == <<"A", "l">>
Bo == <<"B", "o">>
Rd == <<"5", " ", "R", "d">>
Flu == <<"f", "l", "u">>

Body(n, a, r, d) == [name |-> n, address |-> a, reason |-> r, datetime |-> d]

\* The JSON bodies POSTed: three that pass validation (two in the 09 hour, one
\* of them not in the fixed format; one in the 10 hour) and five that do not.
ValidBodies ==
    { Body(<<" ">> \o Al, <<>>, <<>>, Dt0915),
      Body(Bo, Rd \o <<" ">>, Flu, DtSp0945),
      Body(Al, Rd, Flu, Dt1005 \o <<" ">>) }

InvalidBodies ==
    { Body(<<>>, Rd, <<>>, Dt0915),
      Body(<<" ", " ">>, <<>>, <<>>, Dt0915),
      Body(Al, <<>>, <<>>, <<" ">>),
      Body(Al, <<>>, <<>>, Dt915),
      Body(Bo, <<>>, <<>>, DtMonth13) }

Bodies == ValidBodies \cup InvalidBodies

\* Every text the handlers pass to fromisoformat: the stripped "datetime" of a
\* body.  The parser is run once for each and its results kept.
DatetimeTexts == {Strip(b.datetime) : b \in Bodies}

IsoResults ==
    [s \in DatetimeTexts |->
        IF IsoParses(s) THEN [ok |-> TRUE, dt |-> IsoParse(s)] ELSE [ok |-> FALSE]]

IsoOk(s) == s # None /\ IsoResults[s].ok

fromisoformat(s) == IsoResults[s].dt

\* str(uuid.uuid4()): the n-th id drawn.
Uuid(n) == <<"uuid", n>>

\* datetime.utcnow().isoformat(): the text of the clock reading t.
UtcIso(t) == <<"utc", t>>

\* The ids a DELETE body carries: any id drawn so far or later, an id never
\* drawn, and None (no "id" key).
DeleteIds == {Uuid(n) : n \in 0..MaxIds} \cup {None}

Faults == {"none", "mkstemp", "write", "replace"}

(* ------------------------------------------------------- excel helpers *)
\* A file: a complete workbook holding rows, or a torn one (a temp file that
\* mkstemp created empty or that wb.save did not finish), or no file.
NoFile == [exists |-> FALSE, complete |-> FALSE, rows |-> <<>>]
TornFile == [exists |-> TRUE, complete |-> FALSE, rows |-> <<>>]
Workbook(rows) == [exists |-> TRUE, complete |-> TRUE, rows |-> rows]

\* [a[h] for h in HEADERS]
Row(a) == [i \in 1..Len(HEADERS) |-> a[HEADERS[i]]]

\* The rows save_excel appends to the sheet after the header row.
SheetRows(appts) == [i \in 1..Len(appts) |-> Row(appts[i])]

\* A cell as load_workbook gives it back: a cell written with "" holds no
\* value and reads as None.
ReadCell(v) == IF v = <<>> THEN None ELSE v

\* dict(zip(HEADERS, row))
RowDict(row) ==
    [id         |-> ReadCell(row[1]),
     name       |-> ReadCell(row[2]),
     address    |-> ReadCell(row[3]),
     reason     |-> ReadCell(row[4]),
     datetime   |-> ReadCell(row[5]),
     created_at |-> ReadCell(row[6])]

RECURSIVE LoadRows(_)
LoadRows(rows) ==
    IF rows = <<>> THEN <<>>
    ELSE IF ReadCell(Head(rows)[1]) = None
         THEN LoadRows(Tail(rows))
         ELSE <<RowDict(Head(rows))>> \o LoadRows(Tail(rows))

\* load_excel(): the value of `appointments` after it.
load_excel(file) == IF ~file.exists THEN <<>> ELSE LoadRows(file.rows)

\* A variant that compares the date alone.
SameDay(adt, dt) ==
    <<adt.year, adt.month, adt.day>> = <<dt.year, dt.month, dt.day>>

SameHour(adt, dt) ==
    <<adt.year, adt.month, adt.day, adt.hour>> = <<dt.year, dt.month, dt.day, dt.hour>>

\* A variant that counts only the records of the candidate's own minute.
count_same_minute(appts, dt_iso) ==
    IF ~IsoOk(dt_iso) THEN 0
    ELSE Cardinality({i \in DOMAIN appts :
            /\ IsoOk(appts[i].datetime)
            /\ fromisoformat(appts[i].datetime) = fromisoformat(dt_iso)})

\* A variant that leaves the loop at the first record whose datetime does
\* not parse.
RECURSIVE CountLoopBreak(_, _)
CountLoopBreak(appts, dt) ==
    IF appts = <<>> THEN 0
    ELSE IF ~IsoOk(Head(appts).datetime) THEN 0
    ELSE (IF SameHour(fromisoformat(Head(appts).datetime), dt) THEN 1 ELSE 0)
         + CountLoopBreak(Tail(appts), dt)

RECURSIVE CountLoop(_, _)
CountLoop(appts, dt) ==
    IF appts = <<>> THEN 0
    ELSE (IF IsoOk(Head(appts).datetime)
             /\ SameHour(fromisoformat(Head(appts).datetime), dt)
          THEN 1 ELSE 0) + CountLoop(Tail(appts), dt)

count_in_hour(appts, dt_iso) ==
    IF ~IsoOk(dt_iso) THEN 0 ELSE CountLoop(appts, fromisoformat(dt_iso))

\* A variant that counts every record ever inserted, deleted ones too.
HourEverFull(appts, dt) == nextId - 1 >= MAX_PER_HOUR

\* A variant that lets one record more into the hour.
HourOverFull(appts, dt) == count_in_hour(appts, dt) > MAX_PER_HOUR

\* count_in_hour(dt) >= MAX_PER_HOUR
HourFull(appts, dt) == count_in_hour(appts, dt) >= MAX_PER_HOUR

\* sorted(appointments, key=lambda a: a["datetime"]): a stable sort, so x goes
\* after every element whose key is not greater than its own.
\* A variant that is not stable: x goes before the elements of equal key.
RECURSIVE InsertBeforeEqual(_, _)
InsertBeforeEqual(sortedSeq, x) ==
    IF sortedSeq = <<>> THEN <<x>>
    ELSE IF ~StrLess(Head(sortedSeq).datetime, x.datetime)
         THEN <<x>> \o sortedSeq
         ELSE <<Head(sortedSeq)>> \o InsertBeforeEqual(Tail(sortedSeq), x)

RECURSIVE InsertByKey(_, _)
InsertByKey(sortedSeq, x) ==
    IF sortedSeq = <<>> THEN <<x>>
    ELSE IF StrLess(x.datetime, Head(sortedSeq).datetime)
         THEN <<x>> \o sortedSeq
         ELSE <<Head(sortedSeq)>> \o InsertByKey(Tail(sortedSeq), x)

RECURSIVE SortedByDatetime(_)
SortedByDatetime(appts) ==
    IF appts = <<>> THEN <<>>
    ELSE InsertByKey(SortedByDatetime(SubSeq(appts, 1, Len(appts) - 1)),
                     appts[Len(appts)])

\* A variant with the test inverted: it keeps the records of that id.
OnlyId(appts, appt_id) == SelectSeq(appts, LAMBDA a : a.id = appt_id)

\* [a for a in appointments if a["id"] != appt_id]
RECURSIVE WithoutId(_, _)
WithoutId(appts, appt_id) ==
    IF appts = <<>> THEN <<>>
    ELSE IF Head(appts).id # appt_id
         THEN <<Head(appts)>> \o WithoutId(Tail(appts), appt_id)
         ELSE WithoutId(Tail(appts), appt_id)

\* A variant that gives every record the id drawn first.
NewApptFirstId(name, address, reason, dt, n, t) ==
    [id         |-> Uuid(1),
     name       |-> name,
     address    |-> address,
     reason     |-> reason,
     datetime   |-> dt,
     created_at |-> UtcIso(t)]

\* new_appt of the POST handler.
NewAppt(name, address, reason, dt, n, t) ==
    [id         |-> Uuid(n),
     name       |-> name,
     address    |-> address,
     reason     |-> reason,
     datetime   |-> dt,
     created_at |-> UtcIso(t)]

(* ------------------------------------------------------------ responses *)
Threads == {1, 2}

\* What a handler returns: the method of the request it answers, the HTTP
\* status, the JSON fields "ok" and "error", the payload ("appointments",
\* "appointment" or the file sent), and whether the handler called save_excel.
Reply(method, status, error, data, saved) ==
    [method |-> method, status |-> status, ok |-> status < 400,
     error |-> error, data |-> data, saved |-> saved]

NoResp == Reply("none", 0, None, None, FALSE)

REQUIRED == "Name and datetime are required."
INVALID == "Invalid datetime format."
HOUR_FULL == <<"Hour full (max ", MAX_PER_HOUR, ").">>
NOT_FOUND == "Appointment not found"

\* The locals of a handler run by a thread: the method, the request's
\* argument (the stripped fields of a POST body, the id of a DELETE body),
\* `before` of the DELETE handler, the rows save_excel has appended to its
\* workbook and the index of its list iterator, and the status returned.
Locals(method, arg, before, rows, i, status) ==
    [method |-> method, arg |-> arg, before |-> before, rows |-> rows,
     i |-> i, status |-> status]

NoLocals == Locals("none", None, 0, <<>>, 0, 0)

(* --------------------------------------- handlers, one request at a time *)
\* save_excel() run to its end by the one handler running: `fault` is the
\* step of it that raises ("none": no step does).  The workbook is built from
\* appts, written to a fresh temp file, and the temp file renamed over the
\* ledger.
\* A variant that builds the workbook from the list as it was when the
\* request came in.
save_excel_stale(appts, fault) ==
    /\ fault # "none" => faults < MaxFaults
    /\ faults' = IF fault = "none" THEN faults ELSE faults + 1
    /\ ledger' = IF fault = "none" THEN Workbook(SheetRows(appointments)) ELSE ledger
    /\ tmp' = [tmp EXCEPT ![1] =
                 CASE fault = "none" -> NoFile
                   [] fault = "mkstemp" -> @
                   [] fault = "write" -> TornFile
                   [] fault = "replace" -> Workbook(SheetRows(appointments))]

save_excel(appts, fault) ==
    /\ fault # "none" => faults < MaxFaults
    /\ faults' = IF fault = "none" THEN faults ELSE faults + 1
    /\ ledger' = IF fault = "none" THEN Workbook(SheetRows(appts)) ELSE ledger
    /\ tmp' = [tmp EXCEPT ![1] =
                 CASE fault = "none" -> NoFile
                   [] fault = "mkstemp" -> @
                   [] fault = "write" -> TornFile
                   [] fault = "replace" -> Workbook(SheetRows(appts))]

\* A variant that saves the list before it answers.
RejectedSaving(method, status, error) ==
    /\ resp' = Reply(method, status, error, None, TRUE)
    /\ ledger' = Workbook(SheetRows(appointments))
    /\ UNCHANGED <<appointments, tmp, nextId, now, faults>>

\* A request answered with an error before any change is made.
Rejected(method, status, error) ==
    /\ resp' = Reply(method, status, error, None, FALSE)
    /\ UNCHANGED <<appointments, ledger, tmp, nextId, now, faults>>

\* A variant that sorts the list itself: appointments.sort(key=...).
GetSortInPlace ==
    /\ appointments' = SortedByDatetime(appointments)
    /\ resp' = Reply("GET", 200, None, appointments', FALSE)
    /\ UNCHANGED <<ledger, tmp, nextId, now, faults, pc, loc>>

Get ==
    /\ resp' = Reply("GET", 200, None, SortedByDatetime(appointments), FALSE)
    /\ UNCHANGED <<appointments, ledger, tmp, nextId, now, faults, pc, loc>>

Post(body, faultSet) ==
    LET name == Strip(body.name)
        address == Strip(body.address)
        reason == Strip(body.reason)
        dt == Strip(body.datetime)
        new_appt == NewAppt(name, address, reason, dt, nextId, now)
    IN /\ UNCHANGED <<pc, loc>>
       /\ IF name = <<>> \/ dt = <<>>
          THEN Rejected("POST", 400, REQUIRED)
          ELSE IF ~IsoOk(dt)
          THEN Rejected("POST", 400, INVALID)
          ELSE IF HourFull(appointments, dt)
          THEN Rejected("POST", 409, HOUR_FULL)
          ELSE /\ nextId <= MaxIds
               /\ appointments' = Append(appointments, new_appt)
               /\ nextId' = nextId + 1
               /\ now' = now + 1
               /\ \E fault \in faultSet :
                    /\ save_excel(appointments', fault)
                    /\ resp' = IF fault = "none"
                               THEN Reply("POST", 201, None, new_appt, TRUE)
                               ELSE Reply("POST", 500, None, None, TRUE)

\* A variant that puts the list back as it was when save_excel raises.
DeleteRollback(appt_id, faultSet) ==
    LET kept == WithoutId(appointments, appt_id)
    IN /\ UNCHANGED <<pc, loc>>
       /\ IF Len(kept) = Len(appointments)
          THEN Rejected("DELETE", 404, NOT_FOUND)
          ELSE /\ \E fault \in faultSet :
                    /\ save_excel(kept, fault)
                    /\ appointments' = IF fault = "none" THEN kept ELSE appointments
                    /\ resp' = IF fault = "none"
                               THEN Reply("DELETE", 200, None, None, TRUE)
                               ELSE Reply("DELETE", 500, None, None, TRUE)
               /\ UNCHANGED <<nextId, now>>

Delete(appt_id, faultSet) ==
    LET kept == WithoutId(appointments, appt_id)
    IN /\ UNCHANGED <<pc, loc>>
       /\ IF Len(kept) = Len(appointments)
          THEN Rejected("DELETE", 404, NOT_FOUND)
          ELSE /\ appointments' = kept
               /\ \E fault \in faultSet :
                    /\ save_excel(kept, fault)
                    /\ resp' = IF fault = "none"
                               THEN Reply("DELETE", 200, None, None, TRUE)
                               ELSE Reply("DELETE", 500, None, None, TRUE)
               /\ UNCHANGED <<nextId, now>>

\* A variant that sends the file as it is, without save_excel().
DownloadNoSave(faultSet) ==
    /\ resp' = Reply("DOWNLOAD", 200, None, ledger, FALSE)
    /\ UNCHANGED <<appointments, ledger, tmp, nextId, now, faults, pc, loc>>

Download(faultSet) ==
    /\ \E fault \in faultSet :
         /\ save_excel(appointments, fault)
         /\ resp' = IF fault = "none"
                    THEN Reply("DOWNLOAD", 200, None, ledger', TRUE)
                    ELSE Reply("DOWNLOAD", 500, None, None, TRUE)
    /\ UNCHANGED <<appointments, nextId, now, pc, loc>>

\* The process is started again: load_excel() at import.
Restart ==
    /\ ledger.exists => ledger.complete
    /\ appointments' = load_excel(ledger)
    /\ resp' = NoResp
    /\ UNCHANGED <<ledger, tmp, nextId, now, faults, pc, loc>>

(* ------------------- Spec: requests one at a time, the file system sound *)
Init ==
    /\ appointments = <<>>
    /\ ledger = NoFile
    /\ tmp = [t \in Threads |-> NoFile]
    /\ resp = NoResp
    /\ nextId = 1
    /\ now = 1
    /\ faults = 0
    /\ requests = 0
    /\ pc = [t \in Threads |-> "idle"]
    /\ loc = [t \in Threads |-> NoLocals]

NoFault == {"none"}

Next ==
    \/ Get /\ UNCHANGED requests
    \/ \E body \in Bodies : Post(body, NoFault) /\ UNCHANGED requests
    \/ \E appt_id \in DeleteIds : Delete(appt_id, NoFault) /\ UNCHANGED requests
    \/ Download(NoFault) /\ UNCHANGED requests

Spec == Init /\ [][Next]_vars

(* ------ SpecFaults: requests one at a time, save_excel may raise, restarts *)
\* The collection after k accepted POSTs of the first body, from empty.
RECURSIVE SeedAppts(_)
SeedAppts(k) ==
    IF k = 0 THEN <<>>
    ELSE Append(SeedAppts(k - 1), NewAppt(Al, <<>>, <<>>, Dt0915, k, k))

SeedSizes == {0, MAX_PER_HOUR - 1, MAX_PER_HOUR}

\* The state after those k POSTs: the list, the ledger saved, the next id.
Seeded(k) ==
    /\ appointments = SeedAppts(k)
    /\ ledger = IF k = 0 THEN NoFile ELSE Workbook(SheetRows(SeedAppts(k)))
    /\ nextId = k + 1
    /\ now = k + 1

InitRest ==
    /\ tmp = [t \in Threads |-> NoFile]
    /\ resp = NoResp
    /\ faults = 0
    /\ requests = 0
    /\ pc = [t \in Threads |-> "idle"]
    /\ loc = [t \in Threads |-> NoLocals]

Counted ==
    /\ requests < MaxRequests
    /\ requests' = requests + 1

NextFaults ==
    \/ Get /\ Counted
    \/ \E body \in Bodies : Post(body, Faults) /\ Counted
    \/ \E appt_id \in DeleteIds : Delete(appt_id, Faults) /\ Counted
    \/ Download(Faults) /\ Counted
    \/ Restart /\ Counted

InitSeeded ==
    /\ \E k \in SeedSizes : Seeded(k)
    /\ InitRest

SpecFaults == InitSeeded /\ [][NextFaults]_vars

(* -------- SpecThreads: the threaded server, handlers interleaved by step *)
\* app.run() serves each request on a thread of its own and the handlers
\* take no lock: a thread runs one handler a step at a time, a step being a
\* run of the handler between two accesses to `appointments` or to the file
\* system.  count_in_hour, and the list comprehension with its slice
\* assignment, are each taken as one step.
\* The handler returns `status`; its locals are dropped.
Done(t, status) ==
    /\ pc' = [pc EXCEPT ![t] = "done"]
    /\ loc' = [loc EXCEPT ![t] = Locals("none", None, 0, <<>>, 0, status)]

\* A thread takes a request.
Accept(t) ==
    /\ pc[t] \in {"idle", "done"}
    /\ requests < MaxThreadRequests
    /\ requests' = requests + 1

\* The requests the threads are given: a POST for the 09 hour, one for the
\* 10 hour and one that fails validation; a DELETE of the first id drawn and
\* one of an id never drawn.
ThreadBodies ==
    { Body(<<" ">> \o Al, <<>>, <<>>, Dt0915),
      Body(Al, Rd, Flu, Dt1005 \o <<" ">>),
      Body(<<>>, Rd, <<>>, Dt0915) }

ThreadDeleteIds == {Uuid(0), Uuid(1)}

Goto(t, label) == pc' = [pc EXCEPT ![t] = label]

\* save_excel() is entered: wb = Workbook(), the header row, the iterator.
EnterSave(t) ==
    /\ pc' = [pc EXCEPT ![t] = "save_iter"]
    /\ loc' = [loc EXCEPT ![t].rows = <<>>, ![t].i = 1]

\* save_excel() raises at this step: the handler ends with a 500.
Raises(t) ==
    /\ faults < MaxFaults
    /\ faults' = faults + 1
    /\ Done(t, 500)

T_Get(t) ==
    /\ Accept(t)
    /\ Done(t, 200)
    /\ UNCHANGED <<appointments, ledger, tmp, resp, nextId, now, faults>>

\* The POST handler up to count_in_hour: the body is read and validated.
T_Post(t, body) ==
    LET name == Strip(body.name)
        dt == Strip(body.datetime)
        arg == Body(name, Strip(body.address), Strip(body.reason), dt)
    IN /\ Accept(t)
       /\ IF name = <<>> \/ dt = <<>> \/ ~IsoOk(dt)
          THEN Done(t, 400)
          ELSE /\ pc' = [pc EXCEPT ![t] = "post_count"]
               /\ loc' = [loc EXCEPT ![t] = Locals("POST", arg, 0, <<>>, 0, 0)]
       /\ UNCHANGED <<appointments, ledger, tmp, resp, nextId, now, faults>>

\* if count_in_hour(dt) >= MAX_PER_HOUR: return 409
T_PostCount(t) ==
    /\ pc[t] = "post_count"
    /\ IF HourFull(appointments, loc[t].arg.datetime)
       THEN Done(t, 409)
       ELSE Goto(t, "post_append") /\ UNCHANGED loc
    /\ UNCHANGED <<appointments, ledger, tmp, resp, nextId, now, faults, requests>>

\* new_appt = {...}; appointments.append(new_appt); save_excel() is entered.
T_PostAppend(t) ==
    LET a == loc[t].arg
    IN /\ pc[t] = "post_append"
       /\ nextId <= MaxIds
       /\ appointments' = Append(appointments,
              NewAppt(a.name, a.address, a.reason, a.datetime, nextId, now))
       /\ nextId' = nextId + 1
       /\ now' = now + 1
       /\ EnterSave(t)
       /\ UNCHANGED <<ledger, tmp, resp, faults, requests>>

\* The DELETE handler: before = len(appointments)
T_Delete(t, appt_id) ==
    /\ Accept(t)
    /\ pc' = [pc EXCEPT ![t] = "del_filter"]
    /\ loc' = [loc EXCEPT ![t] =
                 Locals("DELETE", appt_id, Len(appointments), <<>>, 0, 0)]
    /\ UNCHANGED <<appointments, ledger, tmp, resp, nextId, now, faults>>

\* appointments[:] = [a for a in appointments if a["id"] != appt_id]
T_DelFilter(t) ==
    /\ pc[t] = "del_filter"
    /\ appointments' = WithoutId(appointments, loc[t].arg)
    /\ Goto(t, "del_check")
    /\ UNCHANGED <<ledger, tmp, resp, nextId, now, faults, requests, loc>>

\* if len(appointments) == before: return 404; else save_excel() is entered.
T_DelCheck(t) ==
    /\ pc[t] = "del_check"
    /\ IF Len(appointments) = loc[t].before
       THEN Done(t, 404)
       ELSE EnterSave(t)
    /\ UNCHANGED <<appointments, ledger, tmp, resp, nextId, now, faults, requests>>

\* download_excel(): save_excel() is entered.
T_Download(t) ==
    /\ Accept(t)
    /\ pc' = [pc EXCEPT ![t] = "save_iter"]
    /\ loc' = [loc EXCEPT ![t] = Locals("DOWNLOAD", None, 0, <<>>, 1, 0)]
    /\ UNCHANGED <<appointments, ledger, tmp, resp, nextId, now, faults>>

\* for a in appointments: ws.append([a[h] for h in HEADERS]) -- one turn of
\* the loop: the list iterator reads the live list at its index, and the loop
\* ends when the index is past the end of the list as it then is.
T_SaveIter(t) ==
    /\ pc[t] = "save_iter"
    /\ IF loc[t].i <= Len(appointments)
       THEN /\ loc' = [loc EXCEPT ![t].rows = Append(@, Row(appointments[loc[t].i])),
                                  ![t].i = @ + 1]
            /\ UNCHANGED pc
       ELSE Goto(t, "save_mkstemp") /\ UNCHANGED loc
    /\ UNCHANGED <<appointments, ledger, tmp, resp, nextId, now, faults, requests>>

\* A variant that opens the ledger itself for writing.
mkstemp_in_place(t) ==
    /\ ledger' = TornFile
    /\ UNCHANGED tmp

\* tmp_fd, tmp_path = tempfile.mkstemp(...); os.close(tmp_fd): a new, empty
\* file of the thread's own.
mkstemp(t) ==
    /\ tmp' = [tmp EXCEPT ![t] = TornFile]
    /\ UNCHANGED ledger

T_SaveMkstemp(t) ==
    /\ pc[t] = "save_mkstemp"
    /\ \/ mkstemp(t) /\ Goto(t, "save_write") /\ UNCHANGED <<loc, faults>>
       \/ Raises(t) /\ UNCHANGED <<ledger, tmp>>
    /\ UNCHANGED <<appointments, resp, nextId, now, requests>>

\* wb.save(tmp_path): the workbook entire, or an error that leaves the temp
\* file torn.
T_SaveWrite(t) ==
    /\ pc[t] = "save_write"
    /\ \/ /\ tmp' = [tmp EXCEPT ![t] = Workbook(loc[t].rows)]
          /\ Goto(t, "save_replace") /\ UNCHANGED <<loc, faults>>
       \/ Raises(t) /\ UNCHANGED tmp
    /\ UNCHANGED <<appointments, ledger, resp, nextId, now, requests>>

\* os.replace(tmp_path, EXCEL_FILE), then the handler returns.
T_SaveReplace(t) ==
    /\ pc[t] = "save_replace"
    /\ \/ /\ ledger' = tmp[t]
          /\ tmp' = [tmp EXCEPT ![t] = NoFile]
          /\ Done(t, IF loc[t].method = "POST" THEN 201 ELSE 200)
          /\ UNCHANGED faults
       \/ Raises(t) /\ UNCHANGED <<ledger, tmp>>
    /\ UNCHANGED <<appointments, resp, nextId, now, requests>>

\* The process dies, whatever its threads are at, and is started again:
\* load_excel() at import.  The files stay as they are.
Crash ==
    /\ \E t \in Threads : pc[t] # "idle"
    /\ ledger.exists => ledger.complete
    /\ appointments' = load_excel(ledger)
    /\ pc' = [t \in Threads |-> "idle"]
    /\ loc' = [t \in Threads |-> NoLocals]
    /\ UNCHANGED <<ledger, tmp, resp, nextId, now, faults, requests>>

NextThreads ==
    \/ \E t \in Threads : T_Get(t)
    \/ \E t \in Threads, body \in ThreadBodies : T_Post(t, body)
    \/ \E t \in Threads : T_PostCount(t)
    \/ \E t \in Threads : T_PostAppend(t)
    \/ \E t \in Threads, appt_id \in ThreadDeleteIds : T_Delete(t, appt_id)
    \/ \E t \in Threads : T_DelFilter(t)
    \/ \E t \in Threads : T_DelCheck(t)
    \/ \E t \in Threads : T_Download(t)
    \/ \E t \in Threads : T_SaveIter(t)
    \/ \E t \in Threads : T_SaveMkstemp(t)
    \/ \E t \in Threads : T_SaveWrite(t)
    \/ \E t \in Threads : T_SaveReplace(t)
    \/ Crash

ThreadSeedSizes == {0, MAX_PER_HOUR - 1}

InitThreads ==
    /\ \E k \in ThreadSeedSizes : Seeded(k)
    /\ InitRest

SpecThreads == InitThreads /\ [][NextThreads]_vars

(* ---- SpecCount: count_in_hour on the list loaded from a file found there *)
\* The "datetime" cells of a ledger found at startup, which load_excel takes
\* as they are: texts that parse, one that does not, and an empty cell.
StoredCells == {Dt0915, DtSp0945, Dt1005, Dt915, <<>>}

\* The rows of such a file, one for each cell of ds.
StoredRows(ds) ==
    [i \in DOMAIN ds |-> <<Uuid(i), Al, <<>>, <<>>, ds[i], UtcIso(i)>>]

\* The texts count_in_hour is called with, and None.
Candidates == DatetimeTexts \cup {None}

\* The process starts on a ledger of at most MaxStored rows: load_excel().
InitCount ==
    /\ \E n \in 0..MaxStored :
         \E ds \in [1..n -> StoredCells] :
            /\ ledger = Workbook(StoredRows(ds))
            /\ appointments = load_excel(ledger)
            /\ nextId = n + 1
            /\ now = n + 1
    /\ InitRest

\* count_in_hour(dt_iso) is called: `data` is its argument and the value it
\* returns.
CountInHour(dt_iso) ==
    /\ resp' = Reply("count_in_hour", 200, None,
                     <<dt_iso, count_in_hour(appointments, dt_iso)>>, FALSE)
    /\ UNCHANGED <<appointments, ledger, tmp, nextId, now, faults, requests, pc, loc>>

NextCount == \E dt_iso \in Candidates : CountInHour(dt_iso)

SpecCount == InitCount /\ [][NextCount]_vars

(* ================================================================ claims *)
\* The (year, month, day, hour) bucket of a datetime text that parses.
BucketOf(s) ==
    LET d == IsoParse(s) IN <<d.year, d.month, d.day, d.hour>>

\* The number of records of appts whose datetime falls in bucket b.
BucketCount(appts, b) ==
    Cardinality({i \in DOMAIN appts :
        IsoParses(appts[i].datetime) /\ BucketOf(appts[i].datetime) = b})

\* The buckets of the datetime texts of the model.
Buckets == {BucketOf(s) : s \in {x \in DatetimeTexts : IsoParses(x)}}

Hour09 == BucketOf(Dt0915)
Hour10 == BucketOf(Dt1005)

\* The body passes the validation of the POST handler: a name that is not
\* empty once stripped and a datetime that fromisoformat parses.
PassesValidation(body) ==
    Strip(body.name) # <<>> /\ IsoParses(Strip(body.datetime))

RemoveAt(seq, i) == SubSeq(seq, 1, i - 1) \o SubSeq(seq, i + 1, Len(seq))

\* C1: from the empty collection, after any sequence of POST and DELETE
\* requests handled one at a time, no (year, month, day, hour) bucket holds
\* more than MAX_PER_HOUR records.
C1_HourCapacity ==
    \A b \in Buckets : BucketCount(appointments, b) <= MAX_PER_HOUR

\* A bucket is at the limit while another bucket holds records too.
C1_Witness ==
    /\ BucketCount(appointments, Hour09) = MAX_PER_HOUR
    /\ BucketCount(appointments, Hour10) > 0

\* C2: a POST with a valid name and datetime whose bucket already holds
\* MAX_PER_HOUR records is answered 409 "Hour full (max N)." and leaves the
\* collection exactly as it was.
C2_FullHourRejected ==
    [][\A body \in Bodies :
          (/\ Post(body, NoFault)
           /\ PassesValidation(body)
           /\ BucketCount(appointments, BucketOf(Strip(body.datetime))) >= MAX_PER_HOUR)
          => (/\ resp'.method = "POST" /\ resp'.status = 409 /\ ~resp'.ok
              /\ resp'.error = <<"Hour full (max ", 4, ").">>
              /\ appointments' = appointments)]_vars

\* A POST was answered 409 with the 09 hour full.
C2_Witness ==
    /\ resp.method = "POST" /\ resp.status = 409
    /\ BucketCount(appointments, Hour09) = MAX_PER_HOUR

\* C3: a POST with a non-empty name and a datetime that parses is accepted
\* whenever its own bucket holds fewer than MAX_PER_HOUR records, however full
\* the other buckets are; it appends exactly one record, made of the stripped
\* fields, and keeps every record there was.
C3_PerBucketAccept ==
    [][\A body \in Bodies :
          (/\ Post(body, NoFault)
           /\ PassesValidation(body)
           /\ BucketCount(appointments, BucketOf(Strip(body.datetime))) < MAX_PER_HOUR)
          => (/\ resp'.method = "POST" /\ resp'.status = 201 /\ resp'.ok
              /\ Len(appointments') = Len(appointments) + 1
              /\ SubSeq(appointments', 1, Len(appointments)) = appointments
              /\ resp'.data = appointments'[Len(appointments')]
              /\ resp'.data.name = Strip(body.name)
              /\ resp'.data.address = Strip(body.address)
              /\ resp'.data.reason = Strip(body.reason)
              /\ resp'.data.datetime = Strip(body.datetime))]_vars

\* With the 09 hour full, a POST for the 10 hour was accepted.
C3_Witness ==
    /\ resp.method = "POST" /\ resp.status = 201
    /\ BucketOf(resp.data.datetime) = Hour10
    /\ appointments[Len(appointments)] = resp.data
    /\ BucketCount(appointments, Hour09) = MAX_PER_HOUR

\* C4: a POST whose name is empty after trimming, or whose datetime is empty
\* or does not parse under the fixed format DATETIME_FORMAT, is answered 400,
\* changes nothing in the collection and writes no file.
C4_FixedFormatRejected ==
    [][\A body \in Bodies :
          (/\ Post(body, NoFault)
           /\ \/ Strip(body.name) = <<>>
              \/ Strip(body.datetime) = <<>>
              \/ ~DATETIME_FORMAT(Strip(body.datetime)))
          => (/\ resp'.method = "POST" /\ resp'.status = 400
              /\ ~resp'.saved
              /\ appointments' = appointments
              /\ ledger' = ledger /\ tmp' = tmp)]_vars

\* C5: DELETE with the id of a record of the collection removes that one
\* record and keeps the others in their order, and the list returned next
\* does not hold it; DELETE with an id that no record has is answered 404 and
\* leaves the collection as it was.
C5_DeleteExactlyOne ==
    [][\A appt_id \in DeleteIds :
          Delete(appt_id, NoFault)
          => IF \E i \in DOMAIN appointments : appointments[i].id = appt_id
             THEN /\ resp'.method = "DELETE" /\ resp'.status = 200 /\ resp'.ok
                  /\ Len(appointments') = Len(appointments) - 1
                  /\ \E i \in DOMAIN appointments :
                       /\ appointments[i].id = appt_id
                       /\ appointments' = RemoveAt(appointments, i)
                  /\ \A j \in DOMAIN SortedByDatetime(appointments') :
                       SortedByDatetime(appointments')[j].id # appt_id
             ELSE /\ resp'.method = "DELETE" /\ resp'.status = 404 /\ ~resp'.ok
                  /\ resp'.error = "Appointment not found"
                  /\ appointments' = appointments]_vars

\* A DELETE was answered 200 and records are left.
C5_Witness ==
    /\ resp.method = "DELETE" /\ resp.status = 200
    /\ Len(appointments) >= 2

\* The file holds one row per record, in the order of the collection, each
\* row the six fields of its record.
LedgerIs(file, appts) ==
    /\ file.exists /\ file.complete
    /\ Len(file.rows) = Len(appts)
    /\ \A i \in DOMAIN appts :
         file.rows[i] = <<appts[i].id, appts[i].name, appts[i].address,
                          appts[i].reason, appts[i].datetime, appts[i].created_at>>

\* C6: with requests handled one at a time, when a POST or a DELETE returns
\* success the ledger file holds the whole current collection, in its order.
C6_LedgerAtSuccess ==
    (resp.method \in {"POST", "DELETE"} /\ resp.ok) => LedgerIs(ledger, appointments)

\* A DELETE succeeded after an earlier save had failed.
C6_Witness ==
    /\ resp.method = "DELETE" /\ resp.ok
    /\ faults > 0
    /\ Len(appointments) > 0

\* The step replaces the process: every thread is back at "idle".
IsCrash ==
    /\ \E t \in Threads : pc[t] # "idle"
    /\ \A t \in Threads : pc'[t] = "idle"

\* C7: the ledger is replaced atomically.  At every step of every save,
\* whichever step raises and wherever the process dies, the ledger is never a
\* partial file; the one step that changes it is the replace, which puts the
\* complete workbook of that save in its place; a step that raises leaves it
\* as it was; and after the process dies the ledger is as it was and is what
\* the next load reads.
C7_AtomicReplace ==
    [][/\ ledger'.exists => ledger'.complete
       /\ ledger' # ledger =>
            \E t \in Threads :
               /\ pc[t] = "save_replace" /\ pc'[t] = "done"
               /\ tmp[t].exists /\ tmp[t].complete
               /\ ledger' = [exists |-> TRUE, complete |-> TRUE, rows |-> loc[t].rows]
       /\ faults' > faults => ledger' = ledger
       /\ IsCrash => (ledger' = ledger /\ appointments' = load_excel(ledger'))]_vars

\* The process died between wb.save(tmp_path) and os.replace: the temp file
\* holds the new workbook, the ledger the previous one, and nothing raised.
C7_Witness ==
    /\ \A t \in Threads : pc[t] = "idle"
    /\ faults = 0
    /\ \E t \in Threads :
         tmp[t].exists /\ tmp[t].complete /\ tmp[t] # ledger
    /\ appointments = load_excel(ledger)

\* Thread u is inside save_excel's loop over the list.
Iterating(u) == pc[u] = "save_iter" /\ loc[u].i > 1

\* Thread u is inside the read-modify-write of an insert (from count_in_hour
\* to the append) or of a delete (from before = len to the length test).
Mutating(u) == pc[u] \in {"post_append", "del_filter", "del_check"}

\* C8: insert, delete and save run in one mutual-exclusion domain: no step
\* that changes `appointments` for an insert or a delete is taken while
\* another thread is inside a mutation or inside save's loop over the list.
C8_MutualExclusion ==
    [][\A t \in Threads :
          ((T_PostAppend(t) \/ T_DelFilter(t)) /\ appointments' # appointments)
          => \A u \in Threads \ {t} : ~Iterating(u) /\ ~Mutating(u)]_vars

\* C9: under every interleaving of the handlers no bucket holds more than
\* MAX_PER_HOUR records: of two concurrent POSTs for a bucket that holds
\* MAX_PER_HOUR - 1, at most one is accepted.
C9_HourCapacityThreads ==
    \A b \in Buckets :
        Cardinality({i \in DOMAIN appointments :
            IsoParses(appointments[i].datetime)
            /\ BucketOf(appointments[i].datetime) = b}) <= MAX_PER_HOUR

\* seq holds two records of equal datetime.
HasTie(seq) ==
    \E i, j \in DOMAIN seq : i < j /\ seq[i].datetime = seq[j].datetime

\* The place of record x in the collection.
PlaceOf(x) == CHOOSE i \in DOMAIN appointments : appointments[i] = x

Records(appts) == {appts[i] : i \in DOMAIN appts}

\* C11: round trip.  When the ledger is the save of the collection, loading
\* it yields the same set of records, each with its six fields as they were,
\* records whose address or reason is the empty string included.
C11_RoundTrip ==
    [][(Restart /\ LedgerIs(ledger, appointments))
          => Records(appointments') = Records(appointments)]_vars

\* The ids of the records of a collection.
IdsOf(appts) == {appts[i].id : i \in DOMAIN appts}

\* C12: no two records of the collection have the same id, and a POST that
\* inserts a record gives it an id that no record of the collection has at
\* that moment.
C12_UniqueIds ==
    [][/\ \A i, j \in DOMAIN appointments' :
            i # j => appointments'[i].id # appointments'[j].id
       /\ \A body \in Bodies :
            (Post(body, Faults) /\ appointments' # appointments)
            => /\ Len(appointments') = Len(appointments) + 1
               /\ appointments'[Len(appointments')].id \notin IdsOf(appointments)]_vars

\* A record was inserted after the record of the first id was deleted, and
\* the process restarted since: the ids left are all different.
C12_Witness ==
    /\ Len(appointments) >= MAX_PER_HOUR
    /\ Uuid(1) \notin IdsOf(appointments)
    /\ \E i \in DOMAIN appointments : appointments[i].address = None
    /\ resp.method = "POST" /\ resp.ok

\* C13: no rollback.  When the save of a POST or of a DELETE raises (the
\* request is answered 500) the change made to the collection stays: the
\* record appended is there, the record deleted is gone, the ledger is the
\* file it was, so a ledger that held the collection no longer does; and a
\* GET returns the records of the collection as it is in memory.
C13_NoRollback ==
    [][/\ \A body \in Bodies :
            (Post(body, Faults) /\ resp'.status = 500)
            => /\ Len(appointments') = Len(appointments) + 1
               /\ SubSeq(appointments', 1, Len(appointments)) = appointments
               /\ appointments'[Len(appointments')].name = Strip(body.name)
               /\ appointments'[Len(appointments')].datetime = Strip(body.datetime)
               /\ ledger' = ledger
               /\ LedgerIs(ledger, appointments) => ~LedgerIs(ledger', appointments')
       /\ \A appt_id \in DeleteIds :
            (Delete(appt_id, Faults) /\ resp'.status = 500)
            => /\ appt_id \in IdsOf(appointments)
               /\ appt_id \notin IdsOf(appointments')
               /\ Len(appointments') = Len(appointments) - 1
               /\ ledger' = ledger
               /\ LedgerIs(ledger, appointments) => ~LedgerIs(ledger', appointments')
       /\ Get => Records(resp'.data) = Records(appointments)]_vars

\* A GET after a save has failed: it returns the collection, which has not
\* the number of records the ledger has.
C13_Witness ==
    /\ resp.method = "GET"
    /\ faults > 0
    /\ ledger.exists
    /\ Len(ledger.rows) # Len(appointments)
    /\ Records(resp.data) = Records(appointments)

\* C14: count_in_hour(candidate) returns the number of records whose stored
\* datetime parses and has the year, month, day and hour of the candidate;
\* records whose stored datetime does not parse are passed over; it returns 0
\* when the candidate does not parse; it returns a value in every case and
\* leaves the collection as it was.
C14_CountInHour ==
    [][\A c \in Candidates :
          CountInHour(c)
          => /\ resp'.data[1] = c
             /\ resp'.data[2] =
                  IF IsoParses(c)
                  THEN Cardinality({i \in DOMAIN appointments :
                         /\ IsoParses(appointments[i].datetime)
                         /\ BucketOf(appointments[i].datetime) = BucketOf(c)})
                  ELSE 0
             /\ appointments' = appointments]_vars

\* Two records counted, after a record whose datetime does not parse.
C14_Witness ==
    /\ resp.method = "count_in_hour"
    /\ resp.data[2] = 2
    /\ Len(appointments) = 3
    /\ ~IsoParses(appointments[1].datetime)
    /\ appointments[2].datetime # appointments[3].datetime

\* C15: records are never updated in place.  A record that is in the
\* collection before and after a step has the same six fields after it as
\* before, and a step that changes the collection is a POST that appends one
\* record or a DELETE that removes the records of the id it names.
C15_NeverUpdated ==
    [][/\ \A i \in DOMAIN appointments, j \in DOMAIN appointments' :
            appointments[i].id = appointments'[j].id
            => appointments[i] = appointments'[j]
       /\ appointments' # appointments
            => \/ \E body \in Bodies :
                    /\ Post(body, Faults)
                    /\ appointments' =
                         Append(appointments, appointments'[Len(appointments')])
               \/ \E appt_id \in DeleteIds :
                    /\ Delete(appt_id, Faults)
                    /\ appt_id \in IdsOf(appointments)
                    /\ Records(appointments') =
                         {r \in Records(appointments) : r.id # appt_id}]_vars

\* C16: GET is a pure read.  It leaves the collection as it was, content and
\* order, writes no file, and is answered 200.
C16_GetPureRead ==
    [][Get => /\ appointments' = appointments
              /\ ledger' = ledger
              /\ tmp' = tmp
              /\ resp'.method = "GET" /\ resp'.status = 200 /\ resp'.ok]_vars

\* A GET answered with the records in another order than the collection
\* has, while the ledger is behind the collection.
C16_Witness ==
    /\ resp.method = "GET" /\ resp.ok
    /\ Len(appointments) >= 2
    /\ resp.data # appointments
    /\ faults > 0
    /\ Len(ledger.rows) # Len(appointments)

\* C17: a download saves before it sends the file.  When a download is
\* answered with the file, the ledger holds the collection as it is, the file
\* sent is that ledger, and the collection is as it was before the download.
C17_DownloadSaves ==
    [][(Download(Faults) /\ resp'.ok)
          => /\ LedgerIs(ledger', appointments')
             /\ resp'.data = ledger'
             /\ appointments' = appointments]_vars

\* From the empty collection: a POST whose save failed, then a download.  The
\* file sent holds the record of that POST.
C17_Witness ==
    /\ resp.method = "DOWNLOAD" /\ resp.ok
    /\ requests = 2 /\ faults = 1
    /\ nextId = 2 /\ Len(appointments) = 1
    /\ resp.data.rows = SheetRows(appointments)

\* Every request taken so far has returned success: each thread has handled
\* at most one request and is not inside a handler, the handlers that ran
\* returned 200 or 201, nothing raised and the process did not die.
AllSucceeded ==
    /\ requests > 0
    /\ faults = 0
    /\ \A t \in Threads : pc[t] \in {"idle", "done"}
    /\ \A t \in Threads : pc[t] = "done" => loc[t].status \in {200, 201}
    /\ requests = Cardinality({t \in Threads : pc[t] = "done"})

\* C18: when requests (inserts, deletes, and the saves that downloads make)
\* are handled concurrently and all of them have returned success, the
\* ledger holds the final collection: no save made from an older state of
\* the list replaces the file of a newer one.
C18_LastSaveWins ==
    AllSucceeded
    => IF ledger.exists THEN LedgerIs(ledger, appointments)
                        ELSE appointments = <<>>

\* C19: a POST answered 409 (hour full) and a DELETE answered 404 (no
\* record of that id) do not save: save_excel is not called, and the ledger
\* and the temp files are after the request what they were before it.
C19_RejectedNoSave ==
    [][/\ \A body \in Bodies :
            (Post(body, Faults) /\ resp'.status = 409)
            => (~resp'.saved /\ ledger' = ledger /\ tmp' = tmp /\ faults' = faults)
       /\ \A appt_id \in DeleteIds :
            (Delete(appt_id, Faults) /\ resp'.status = 404)
            => (~resp'.saved /\ ledger' = ledger /\ tmp' = tmp /\ faults' = faults)]_vars

\* A POST was answered 409 while the ledger was behind the collection, and
\* the ledger is still behind.
C19_Witness ==
    /\ resp.method = "POST" /\ resp.status = 409
    /\ ~resp.saved
    /\ faults > 0
    /\ ledger.exists
    /\ Len(ledger.rows) # Len(appointments)

\* The bucket of the record of that id.
BucketOfId(appts, appt_id) ==
    BucketOf((CHOOSE r \in Records(appts) : r.id = appt_id).datetime)

\* C20: deleting frees capacity.  A DELETE that succeeds on a record of a
\* bucket holding MAX_PER_HOUR records leaves MAX_PER_HOUR - 1 in it, and the
\* next POST for that bucket, valid and saved without error, is accepted and
\* fills it again: only the records in the collection count.
C20_DeleteFreesCapacity ==
    [][/\ \A appt_id \in DeleteIds :
            (/\ Delete(appt_id, Faults) /\ resp'.ok
             /\ BucketCount(appointments, BucketOfId(appointments, appt_id)) = MAX_PER_HOUR)
            => BucketCount(appointments', BucketOfId(appointments, appt_id))
                 = MAX_PER_HOUR - 1
       /\ \A body \in Bodies :
            (/\ Post(body, NoFault)
             /\ PassesValidation(body)
             /\ resp.method = "DELETE" /\ resp.ok
             /\ BucketCount(appointments, BucketOf(Strip(body.datetime)))
                  = MAX_PER_HOUR - 1)
            => (/\ resp'.method = "POST" /\ resp'.status = 201
                /\ Len(appointments') = Len(appointments) + 1
                /\ BucketCount(appointments', BucketOf(Strip(body.datetime)))
                     = MAX_PER_HOUR)]_vars

\* The 09 hour was full, one of its records was deleted, and the POST that
\* followed was accepted: five ids drawn, four records, all in the 09 hour.
C20_Witness ==
    /\ resp.method = "POST" /\ resp.status = 201
    /\ requests = 2 /\ faults = 0
    /\ nextId = MAX_PER_HOUR + 2
    /\ Len(appointments) = MAX_PER_HOUR
    /\ BucketCount(appointments, Hour09) = MAX_PER_HOUR

====
